---- MODULE Spec2Model ----
(***************************************************************************)
(* Model of the Forex Scanner page component (src/app/page.tsx): the       *)
(* watched pair set, the add / remove handlers, and fetchQuotes with its   *)
(* in-flight requests and the way their responses are committed to the     *)
(* visible state (quotes, errors, lastUpdated, isLoading).                 *)
(*                                                                         *)
(* Strings that the code inspects (pair identifiers, the text of the input *)
(* box, the query string) are sequences of one-character strings, so that  *)
(* trim, toUpperCase and encodeURIComponent are computed, not assumed; in  *)
(* the query string the literal "pairs=" and each escape are one element.  *)
(* Strings the code only passes along (error messages, quote payloads,     *)
(* timestamps) are atoms.                                                  *)
(***************************************************************************)
EXTENDS Naturals, Sequences, FiniteSets

VARIABLES
    mounted,      \* the mount effect has run
    pairs,        \* useState<string[]>(DEFAULT_PAIRS)
    quotes,       \* useState<Quote[]>([])
    errors,       \* useState<string[]>([])
    isLoading,    \* useState<boolean>(false)
    lastUpdated,  \* useState<string | null>(null)
    customPair,   \* useState<string>("")
    inflight,     \* inflight[s]: a fetch() of fetchQuotes is pending in slot s
    latest        \* slot of the most recent fetchQuotes call, 0 if it is not pending

vars == <<mounted, pairs, quotes, errors, isLoading, lastUpdated, customPair,
          inflight, latest>>

-----------------------------------------------------------------------------
(* Bounds *)

\* At most this many fetch() calls are pending at once.
MaxInflight == 2

Slots == 1..MaxInflight

-----------------------------------------------------------------------------
(* Strings *)

LowerLetters == <<"e", "u", "r", "s", "d", "j", "p", "y">>
UpperLetters == <<"E", "U", "R", "S", "D", "J", "P", "Y">>

\* Characters String.prototype.trim() strips.
Whitespace == {" ", "\t"}

\* String.prototype.toUpperCase(), one character.
ToUpperChar(c) ==
    IF \E i \in 1..Len(LowerLetters) : LowerLetters[i] = c
    THEN UpperLetters[CHOOSE i \in 1..Len(LowerLetters) : LowerLetters[i] = c]
    ELSE c

\* String.prototype.toUpperCase().
ToUpperCase(s) == [i \in 1..Len(s) |-> ToUpperChar(s[i])]

RECURSIVE TrimStart(_)
TrimStart(s) ==
    IF s # <<>> /\ Head(s) \in Whitespace THEN TrimStart(Tail(s)) ELSE s

RECURSIVE TrimEnd(_)
TrimEnd(s) ==
    IF s # <<>> /\ s[Len(s)] \in Whitespace
    THEN TrimEnd(SubSeq(s, 1, Len(s) - 1))
    ELSE s

\* String.prototype.trim().
Trim(s) == TrimEnd(TrimStart(s))

\* encodeURIComponent(), one character: "/" and " " become an escape (kept as one
\* element of the result), letters are kept.
EncodeChar(c) ==
    IF c = "/" THEN "%2F"
    ELSE IF c = " " THEN "%20"
    ELSE c

\* encodeURIComponent().
EncodeURIComponent(s) == [i \in 1..Len(s) |-> EncodeChar(s[i])]

\* Array.prototype.includes().
Includes(seq, x) == \E i \in 1..Len(seq) : seq[i] = x

\* Array.prototype.filter((item) => item !== pair).
RECURSIVE FilterOut(_, _)
FilterOut(seq, pair) ==
    IF seq = <<>> THEN <<>>
    ELSE IF Head(seq) # pair
         THEN <<Head(seq)>> \o FilterOut(Tail(seq), pair)
         ELSE FilterOut(Tail(seq), pair)

-----------------------------------------------------------------------------
(* Program constants and inputs *)

EUR_USD == <<"E", "U", "R", "/", "U", "S", "D">>
USD_JPY == <<"U", "S", "D", "/", "J", "P", "Y">>
GBP_USD == <<"G", "B", "P", "/", "U", "S", "D">>
USD_CHF == <<"U", "S", "D", "/", "C", "H", "F">>
AUD_USD == <<"A", "U", "D", "/", "U", "S", "D">>

DEFAULT_PAIRS == <<EUR_USD, USD_JPY, GBP_USD, USD_CHF, AUD_USD>>

\* Texts the user types into the "Add currency pair" box.
RawInputs ==
    { <<>>,
      <<" ", "\t">>,
      <<"e", "u", "r", "u", "s", "d">>,
      <<"E", "U", "R", "/", "U", "S", "D">>,
      <<"e", "u", "r", "/", "u", "s", "d">>,
      <<" ", "U", "s", "d", "/", "j", "p", "y", "\t">> }

\* Arguments of handleRemove: the identifiers the page can show, and one it never shows.
RemoveInputs ==
    { DEFAULT_PAIRS[i] : i \in 1..Len(DEFAULT_PAIRS) }
        \cup { ToUpperCase(Trim(r)) : r \in RawInputs }
        \cup { <<"e", "u", "r", "/", "u", "s", "d">> }

\* new Date().toLocaleString() at the moment a response is committed.
Timestamps == {"1/1/2024, 10:00:00 AM"}

NoTimestamp == "null"

\* What a settled fetch() hands to fetchQuotes: the fetch or response.json() threw,
\* or a decoded ApiResponse with response.ok and the optional fields data, errors
\* and error (has* = FALSE: the field is absent, or error is not a string).
Thrown == [kind |-> "throw"]

Payload(ok, hasData, data, hasErrors, errs, hasError, error) ==
    [kind |-> "json", ok |-> ok, hasData |-> hasData, data |-> data,
     hasErrors |-> hasErrors, errors |-> errs, hasError |-> hasError, error |-> error]

OkOutcomes ==
    { Payload(TRUE, TRUE, <<"quoteA", "quoteB", "quoteC">>, TRUE, <<>>, FALSE, ""),
      Payload(TRUE, TRUE, <<"quoteA", "quoteC">>, TRUE, <<"B: unsupported symbol">>, FALSE, ""),
      Payload(TRUE, TRUE, <<>>, TRUE, <<"A: rate limit", "B: unsupported symbol">>, FALSE, ""),
      Payload(TRUE, FALSE, <<>>, FALSE, <<>>, FALSE, "") }

NotOkOutcomes ==
    { Payload(FALSE, FALSE, <<>>, FALSE, <<>>, TRUE, "Missing API key."),
      Payload(FALSE, TRUE, <<"quoteA">>, TRUE, <<"B: unsupported symbol">>, FALSE, "") }

Outcomes == OkOutcomes \cup NotOkOutcomes \cup {Thrown}

-----------------------------------------------------------------------------
(* The component *)

\* One "pairs=<encoded>" parameter.
Param(pair) == <<"pairs=">> \o EncodeURIComponent(pair)

RECURSIVE Join(_)
Join(ps) ==
    IF ps = <<>> THEN <<>>
    ELSE IF Len(ps) = 1 THEN Param(ps[1])
    ELSE Param(ps[1]) \o <<"&">> \o Join(Tail(ps))

\* const queryString = useMemo(...)
queryString(p) == IF Len(p) = 0 THEN <<>> ELSE Join(p)

FreeSlots == { s \in Slots : ~inflight[s] }

\* The slot a new fetch() takes.
NextSlot == CHOOSE s \in FreeSlots : \A t \in FreeSlots : s <= t

\* fetchQuotes without its early return for an empty pair set.
FetchQuotesNoEmptyGuard(p) ==
    /\ FreeSlots # {}
    /\ isLoading' = TRUE
    /\ inflight' = [inflight EXCEPT ![NextSlot] = TRUE]
    /\ latest' = NextSlot
    /\ UNCHANGED <<quotes, errors>>

\* fetchQuotes of the render whose pair set is p, up to its first await.
FetchQuotes(p) ==
    IF Len(p) = 0
    THEN /\ quotes' = <<>>
         /\ errors' = <<>>
         /\ latest' = 0
         /\ UNCHANGED <<isLoading, inflight>>
    ELSE /\ FreeSlots # {}
         /\ isLoading' = TRUE
         /\ inflight' = [inflight EXCEPT ![NextSlot] = TRUE]
         /\ latest' = NextSlot
         /\ UNCHANGED <<quotes, errors>>

\* useEffect(() => { fetchQuotes(); }, [fetchQuotes]) after a render that replaced
\* pairs by p: fetchQuotes is a new callback iff pairs.length or queryString changed.
Effect(p) ==
    IF Len(p) # Len(pairs) \/ queryString(p) # queryString(pairs)
    THEN FetchQuotes(p)
    ELSE UNCHANGED <<quotes, errors, isLoading, inflight, latest>>

\* First render: the effect runs fetchQuotes once.
Mount ==
    /\ ~mounted
    /\ mounted' = TRUE
    /\ FetchQuotes(pairs)
    /\ UNCHANGED <<pairs, lastUpdated, customPair>>

\* handleSubmit without toUpperCase().
SubmitPairsNoUpperCase(prev, text) ==
    IF Trim(text) = <<>> THEN prev
    ELSE IF Includes(prev, Trim(text)) THEN prev
    ELSE Append(prev, Trim(text))

\* handleSubmit without `if (!trimmed) return`.
SubmitPairsNoEmptyCheck(prev, text) ==
    IF Includes(prev, ToUpperCase(Trim(text))) THEN prev
    ELSE Append(prev, ToUpperCase(Trim(text)))

\* The pair set handleSubmit leaves for the text in the input box.
SubmitPairs(prev, text) ==
    IF Trim(text) = <<>> THEN prev
    ELSE IF Includes(prev, ToUpperCase(Trim(text))) THEN prev
    ELSE Append(prev, ToUpperCase(Trim(text)))

\* The user leaves raw in the input box (onChange: setCustomPair(event.target.value))
\* and submits the form: handleSubmit, and the effect of the render it causes.
HandleSubmit(raw) ==
    /\ mounted
    /\ pairs' = SubmitPairs(pairs, raw)
    /\ customPair' = IF Trim(raw) = <<>> THEN raw ELSE <<>>
    /\ UNCHANGED <<mounted, lastUpdated>>
    /\ Effect(pairs')

\* handleRemove cutting the list at the match instead of filtering it.
RECURSIVE RemovePairsTruncate(_, _)
RemovePairsTruncate(prev, pair) ==
    IF prev = <<>> \/ Head(prev) = pair THEN <<>>
    ELSE <<Head(prev)>> \o RemovePairsTruncate(Tail(prev), pair)

\* The pair set handleRemove leaves.
RemovePairs(prev, pair) == FilterOut(prev, pair)

\* handleRemove(pair), and the effect of the render it causes.
HandleRemove(pair) ==
    /\ mounted
    /\ pairs' = RemovePairs(pairs, pair)
    /\ UNCHANGED <<mounted, lastUpdated, customPair>>
    /\ Effect(pairs')

\* <button onClick={fetchQuotes} disabled={isLoading || !pairs.length}>
Refresh ==
    /\ mounted
    /\ ~isLoading
    /\ Len(pairs) # 0
    /\ FetchQuotes(pairs)
    /\ UNCHANGED <<mounted, pairs, lastUpdated, customPair>>

\* The top-level message of a non-OK response.
Message(o) == IF o.hasError THEN o.error ELSE "Request failed."

\* Commit with the failure paths leaving the quotes of the last refresh in place.
CommitKeepsQuotesOnFailure(o) ==
    IF o.kind = "throw"
    THEN /\ errors' = <<"Unable to fetch exchange rates.">>
         /\ UNCHANGED <<quotes, lastUpdated>>
    ELSE IF ~o.ok
    THEN /\ errors' = <<Message(o)>>
         /\ UNCHANGED <<quotes, lastUpdated>>
    ELSE /\ quotes' = (IF o.hasData THEN o.data ELSE <<>>)
         /\ errors' = (IF o.hasErrors THEN o.errors ELSE <<>>)
         /\ lastUpdated' \in Timestamps

\* Commit showing no quotes when the response carries per-pair errors.
CommitDropsQuotesOnErrors(o) ==
    IF o.kind = "throw"
    THEN /\ errors' = <<"Unable to fetch exchange rates.">>
         /\ quotes' = <<>>
         /\ lastUpdated' = NoTimestamp
    ELSE IF ~o.ok
    THEN /\ errors' = <<Message(o)>>
         /\ quotes' = <<>>
         /\ lastUpdated' = NoTimestamp
    ELSE /\ errors' = (IF o.hasErrors THEN o.errors ELSE <<>>)
         /\ quotes' = (IF errors' # <<>> THEN <<>>
                       ELSE IF o.hasData THEN o.data ELSE <<>>)
         /\ lastUpdated' \in Timestamps

\* fetchQuotes after its awaits, for a fetch that settled with o: the body of the
\* try after the awaits, and the catch.
Commit(o) ==
    IF o.kind = "throw"
    THEN /\ errors' = <<"Unable to fetch exchange rates.">>
         /\ quotes' = <<>>
         /\ lastUpdated' = NoTimestamp
    ELSE IF ~o.ok
    THEN /\ errors' = <<Message(o)>>
         /\ quotes' = <<>>
         /\ lastUpdated' = NoTimestamp
    ELSE /\ quotes' = (IF o.hasData THEN o.data ELSE <<>>)
         /\ errors' = (IF o.hasErrors THEN o.errors ELSE <<>>)
         /\ lastUpdated' \in Timestamps

\* Settle dropping the last watched pair when the response reports a failure.
SettlePrunesFailed(s, o) ==
    /\ inflight[s]
    /\ inflight' = [inflight EXCEPT ![s] = FALSE]
    /\ latest' = IF latest = s THEN 0 ELSE latest
    /\ Commit(o)
    /\ isLoading' = FALSE
    /\ pairs' = IF errors' # <<>> /\ pairs # <<>>
                THEN SubSeq(pairs, 1, Len(pairs) - 1)
                ELSE pairs
    /\ UNCHANGED <<mounted, customPair>>

\* Settle with setIsLoading(false) at the end of the try instead of in a finally.
SettleLoadingOnSuccessOnly(s, o) ==
    /\ inflight[s]
    /\ inflight' = [inflight EXCEPT ![s] = FALSE]
    /\ latest' = IF latest = s THEN 0 ELSE latest
    /\ Commit(o)
    /\ isLoading' = (IF o.kind = "json" /\ o.ok THEN FALSE ELSE isLoading)
    /\ UNCHANGED <<mounted, pairs, customPair>>

\* The pending fetch in slot s settles with o: Commit, then the finally.
Settle(s, o) ==
    /\ inflight[s]
    /\ inflight' = [inflight EXCEPT ![s] = FALSE]
    /\ latest' = IF latest = s THEN 0 ELSE latest
    /\ Commit(o)
    /\ isLoading' = FALSE
    /\ UNCHANGED <<mounted, pairs, customPair>>

Init ==
    /\ mounted = FALSE
    /\ pairs = DEFAULT_PAIRS
    /\ quotes = <<>>
    /\ errors = <<>>
    /\ isLoading = FALSE
    /\ lastUpdated = NoTimestamp
    /\ customPair = <<>>
    /\ inflight = [s \in Slots |-> FALSE]
    /\ latest = 0

Next ==
    \/ Mount
    \/ \E raw \in RawInputs : HandleSubmit(raw)
    \/ \E pair \in RemoveInputs : HandleRemove(pair)
    \/ Refresh
    \/ \E s \in Slots : \E o \in Outcomes : Settle(s, o)

Spec == Init /\ [][Next]_vars

\* Every issued request eventually settles.
FairSpec == Spec /\ WF_vars(\E s \in Slots : \E o \in Outcomes : Settle(s, o))

-----------------------------------------------------------------------------
(* Properties *)

FailedOutcomes == NotOkOutcomes \cup {Thrown}

\* C1: a response that does not belong to the most recent fetchQuotes call never
\* changes quotes, errors or lastUpdated.
NoStaleCommit ==
    [][\A s \in Slots :
          (inflight[s] /\ ~inflight'[s] /\ s # latest)
              => UNCHANGED <<quotes, errors, lastUpdated>>]_vars

\* The canonical identifier of the specification: upper case, separator removed.
RECURSIVE Canonical(_)
Canonical(s) ==
    IF s = <<>> THEN <<>>
    ELSE IF Head(s) = "/" THEN Canonical(Tail(s))
    ELSE <<ToUpperChar(Head(s))>> \o Canonical(Tail(s))

\* C2: no two entries of the pair set have the same canonical identifier, where
\* "eurusd", "EUR/USD" and "eur/usd" have the same one.
NoCanonicalDuplicates ==
    \A i, j \in 1..Len(pairs) :
        i # j => Canonical(pairs[i]) # Canonical(pairs[j])

\* a and b differ at most in letter case.
SameIgnoringCase(a, b) ==
    /\ Len(a) = Len(b)
    /\ \A k \in 1..Len(a) : ToUpperChar(a[k]) = ToUpperChar(b[k])

\* raw is a letter-case variant of an entry of the pair set, possibly surrounded
\* by whitespace.
VariantOfPresent(raw) ==
    \E i \in 1..Len(pairs) : SameIgnoringCase(Trim(raw), pairs[i])

\* C3: adding a letter-case variant (with optional surrounding whitespace) of a
\* pair already in the set leaves the set unchanged in size and order.
AddPresentIsNoOp ==
    [][pairs' # pairs =>
          \A raw \in RawInputs : ~(VariantOfPresent(raw) /\ HandleSubmit(raw))]_vars

AddPresentWitness ==
    /\ mounted
    /\ \E raw \in RawInputs :
          /\ VariantOfPresent(raw)
          /\ ~Includes(pairs, raw)
          /\ ENABLED (HandleSubmit(raw) /\ pairs' = pairs)

\* C4: removing an identifier that is not in the set leaves the set unchanged;
\* removing one that is in it takes out exactly that entry and keeps the others
\* in their order.
RemoveContract ==
    [][\A pair \in RemoveInputs :
          \/ IF Includes(pairs, pair)
             THEN /\ Len(pairs') = Len(pairs) - 1
                  /\ \E k \in 1..Len(pairs) :
                        /\ pairs[k] = pair
                        /\ pairs' = SubSeq(pairs, 1, k - 1)
                                       \o SubSeq(pairs, k + 1, Len(pairs))
             ELSE pairs' = pairs
          \/ ~HandleRemove(pair)]_vars

RemoveWitness ==
    pairs = <<EUR_USD, GBP_USD, USD_CHF, AUD_USD, <<"E", "U", "R", "U", "S", "D">>>>

\* C5: a refresh that fails outright commits no quotes, exactly one error message
\* and no lastUpdated.
TopLevelFailureCommit ==
    [][\A s \in Slots : \A o \in FailedOutcomes :
          Settle(s, o) =>
              /\ quotes' = <<>>
              /\ Len(errors') = 1
              /\ lastUpdated' = NoTimestamp]_vars

TopLevelFailureWitness ==
    /\ errors = <<"Request failed.">>
    /\ quotes = <<>>
    /\ lastUpdated = NoTimestamp

\* C6: a refresh of an empty pair set leaves quotes and errors empty and starts
\* no fetch.
EmptyRefresh ==
    [][\A pair \in RemoveInputs :
          (pairs # <<>> /\ pairs' = <<>> /\ HandleRemove(pair)) =>
              /\ quotes' = <<>>
              /\ errors' = <<>>
              /\ inflight' = inflight]_vars

EmptyRefreshWitness ==
    /\ pairs = <<>>
    /\ quotes = <<>>
    /\ errors = <<>>
    /\ lastUpdated \in Timestamps
    /\ \A s \in Slots : ~inflight[s]

\* C7: a successful response with quotes Q and a non-empty error list E commits
\* quotes = Q and errors = E.
PartialFailureCommit ==
    [][\A s \in Slots : \A o \in OkOutcomes :
          (Settle(s, o) /\ o.hasData /\ o.hasErrors /\ o.errors # <<>>) =>
              /\ quotes' = o.data
              /\ errors' = o.errors]_vars

PartialFailureWitness ==
    /\ quotes = <<"quoteA", "quoteC">>
    /\ errors = <<"B: unsupported symbol">>

\* raw is empty or only whitespace.
Blank(raw) == \A k \in 1..Len(raw) : raw[k] \in Whitespace

\* C8: adding an empty or whitespace-only input changes neither the pair set nor
\* errors and starts no refresh.
BlankAddIsNoOp ==
    [][~UNCHANGED <<pairs, errors, quotes, isLoading, inflight, latest>> =>
          \A raw \in RawInputs : ~(Blank(raw) /\ HandleSubmit(raw))]_vars

BlankAddWitness ==
    /\ customPair = <<" ", "\t">>
    /\ pairs # DEFAULT_PAIRS

\* C9: only handleSubmit and handleRemove change the pair set.
PairsChangedOnlyByAddRemove ==
    [][pairs' # pairs =>
          \/ \E raw \in RawInputs : HandleSubmit(raw)
          \/ \E pair \in RemoveInputs : HandleRemove(pair)]_vars

PairsKeptWitness ==
    /\ pairs = DEFAULT_PAIRS
    /\ quotes = <<>>
    /\ errors = <<"A: rate limit", "B: unsupported symbol">>

NoneInFlight == \A s \in Slots : ~inflight[s]

\* C10: isLoading is false whenever no request is in flight, and when every
\* request eventually settles isLoading always becomes false again.
LoadingCleared ==
    /\ [](NoneInFlight => ~isLoading)
    /\ (isLoading ~> ~isLoading)

LoadingClearedWitness ==
    /\ NoneInFlight
    /\ ~isLoading
    /\ errors = <<"Unable to fetch exchange rates.">>

====
